---- MODULE Spec2Model ----
(***************************************************************************)
(* Rigid transforms (TandR), planes, workplanes and the cursor-based       *)
(* Sketch builder of crates/opencascade (lib.rs, workplane.rs).            *)
(*                                                                         *)
(* Numbers.  Points and vectors are integer triples.  A unit quaternion is *)
(* kept as the integer quadruple <<w, i, j, k>> that points along it,      *)
(* divided by the gcd of its entries, so two quadruples are equal exactly  *)
(* when the unit quaternions are.  Rotating v by q is q v q* / |q|^2; for  *)
(* the quaternions reachable from the axis directions (the rotation group  *)
(* of the cube) that quotient is exact, which RotationsExact checks.       *)
(***************************************************************************)
EXTENDS Integers, Sequences, FiniteSets, TLC

VARIABLES
    self,         \* TandR spec: the transform value the caller holds
    out,          \* TandR spec: what the last call was given and returned
    phase,        \* sketch spec: "start", "workplane", "sketch", "wire", "panic"
    mutations,    \* sketch spec: in-place changes made to the workplane so far
    workplane,    \* Workplane { transform }
    first_point,  \* Sketch.first_point : Option<Point3>
    cursor,       \* Sketch.cursor (world coordinates)
    edges         \* Sketch.edges : Vec<Edge>

vars == <<self, out, phase, mutations, workplane, first_point, cursor, edges>>

(***************************************************************************)
(* Bounds of the model.                                                    *)
(***************************************************************************)
MaxCoord == 1       \* coordinates given to a call lie in 0..MaxCoord
MaxEdges == 2       \* drawing commands stop at this many edges
MaxMutations == 1   \* in-place changes made to a workplane before sketch()

(***************************************************************************)
(* nalgebra's vectors and quaternions.                                     *)
(***************************************************************************)
Abs(n) == IF n < 0 THEN -n ELSE n

RECURSIVE Gcd(_, _)
Gcd(a, b) == IF b = 0 THEN a ELSE Gcd(b, a % b)

Zeros == <<0, 0, 0>>

VAdd(u, v) == <<u[1] + v[1], u[2] + v[2], u[3] + v[3]>>

VNeg(v) == <<-v[1], -v[2], -v[3]>>

Dot(u, v) == u[1] * v[1] + u[2] * v[2] + u[3] * v[3]

Cross(u, v) ==
    <<u[2] * v[3] - u[3] * v[2],
      u[3] * v[1] - u[1] * v[3],
      u[1] * v[2] - u[2] * v[1]>>

QIdentity == <<1, 0, 0, 0>>

\* The unit quaternion along q: q scaled by a positive factor.
QUnit(q) ==
    LET g == Gcd(Gcd(Abs(q[1]), Abs(q[2])), Gcd(Abs(q[3]), Abs(q[4])))
    IN  <<q[1] \div g, q[2] \div g, q[3] \div g, q[4] \div g>>

\* Hamilton product, left operand applied last.
QRaw(p, q) ==
    <<p[1] * q[1] - p[2] * q[2] - p[3] * q[3] - p[4] * q[4],
      p[1] * q[2] + p[2] * q[1] + p[3] * q[4] - p[4] * q[3],
      p[1] * q[3] - p[2] * q[4] + p[3] * q[1] + p[4] * q[2],
      p[1] * q[4] + p[2] * q[3] - p[3] * q[2] + p[4] * q[1]>>

QMul(p, q) == QUnit(QRaw(p, q))

\* UnitQuaternion::inverse: the conjugate.
QInverse(q) == <<q[1], -q[2], -q[3], -q[4]>>

QNorm2(q) == q[1] * q[1] + q[2] * q[2] + q[3] * q[3] + q[4] * q[4]

\* q v q* before the division by |q|^2.
QSandwich(q, v) == QRaw(QRaw(q, <<0, v[1], v[2], v[3]>>), QInverse(q))

\* rotation_quat * point, rotation_quat * vector, rotation_quat * unit vector.
Rotate(q, v) ==
    LET s == QSandwich(q, v)
        n == QNorm2(q)
    IN  <<s[2] \div n, s[3] \div n, s[4] \div n>>

Some(v) == [some |-> TRUE, v |-> v]
None == [some |-> FALSE]

\* UnitQuaternion::rotation_between on unit vectors: None when the two are
\* exactly opposite, the identity when they are equal, and otherwise the
\* rotation about a x b by the angle between them, which lies along
\* (1 + a.b, a x b).
rotation_between(a, b) ==
    LET c == Cross(a, b)
        cos == Dot(a, b)
    IN  IF c # Zeros
        THEN IF cos <= -1 THEN None
             ELSE IF cos >= 1 THEN Some(QIdentity)
             ELSE Some(QUnit(<<1 + cos, c[1], c[2], c[3]>>))
        ELSE IF cos < 0 THEN None
             ELSE Some(QIdentity)

(***************************************************************************)
(* lib.rs / workplane.rs constants.                                        *)
(***************************************************************************)
X_NORMAL == <<1, 0, 0>>
Y_NORMAL == <<0, 1, 0>>
Z_NORMAL == <<0, 0, 1>>
BASE_NORMAL == Z_NORMAL
INTER_QUAT == rotation_between(Z_NORMAL, X_NORMAL).v

(***************************************************************************)
(* TandR (lib.rs:44-133; workplane.rs:12-70 is the same type at f64).      *)
(***************************************************************************)
TandR(translation, rotation_quat, inverse) ==
    [translation |-> translation, rotation_quat |-> rotation_quat, inverse |-> inverse]

\* What a call gives back: a value, or the panic of an unwrap()/todo!().
Ok(v) == [ok |-> TRUE, val |-> v]
Panic == [ok |-> FALSE, panic |-> TRUE]

TandR_default == TandR(Zeros, QIdentity, FALSE)

TandR_new(translation, rotation_quat) == TandR(translation, rotation_quat, FALSE)

noop == TandR(Zeros, QIdentity, FALSE)

from_rotation_between(a, b) ==
    LET direct == rotation_between(a, b)
    IN  IF direct.some
        THEN Ok(TandR(Zeros, direct.v, FALSE))
        ELSE LET quat_1 == INTER_QUAT
                 inter_norm == Rotate(quat_1, a)
                 quat_2 == rotation_between(inter_norm, b)
             IN  IF quat_2.some
                 THEN Ok(TandR(Zeros, QMul(quat_2.v, quat_1), FALSE))
                 ELSE Panic

transform_point(t, point) ==
    IF t.inverse
    THEN Rotate(t.rotation_quat, VAdd(point, t.translation))
    ELSE VAdd(Rotate(t.rotation_quat, point), t.translation)

transform_tandr(t, tandr) ==
    [tandr EXCEPT
        !.rotation_quat = QMul(t.rotation_quat, tandr.rotation_quat),
        !.translation = VAdd(t.translation, Rotate(t.rotation_quat, tandr.translation))]

rotate_norm(t, normal) == Rotate(t.rotation_quat, normal)

\* inverse() with the inversion flag left as it was.
inverse_keeps_order(t) ==
    TandR(VNeg(t.translation), QInverse(t.rotation_quat), t.inverse)

inverse(t) ==
    TandR(VNeg(t.translation), QInverse(t.rotation_quat), ~t.inverse)

(***************************************************************************)
(* Plane (workplane.rs:72-121).                                            *)
(***************************************************************************)
NamedPlanes == {"XY", "YZ", "ZX", "XZ", "YX", "ZY"}

Named(variant) == [variant |-> variant]
Custom(x_dir, normal_dir) == [variant |-> "Custom", x_dir |-> x_dir, normal_dir |-> normal_dir]

\* Plane::transform with the YZ and ZX arms exchanged.
Plane_transform_swapped(plane) ==
    CASE plane.variant = "XY" -> Ok(noop)
      [] plane.variant = "YZ" -> from_rotation_between(BASE_NORMAL, Y_NORMAL)
      [] plane.variant = "ZX" -> from_rotation_between(BASE_NORMAL, X_NORMAL)
      [] plane.variant = "YX" -> from_rotation_between(BASE_NORMAL, VNeg(BASE_NORMAL))
      [] plane.variant = "ZY" -> from_rotation_between(BASE_NORMAL, VNeg(X_NORMAL))
      [] plane.variant = "XZ" -> from_rotation_between(BASE_NORMAL, VNeg(Y_NORMAL))
      [] OTHER -> Panic

\* Plane::transform: the last arm is todo!().
Plane_transform(plane) ==
    CASE plane.variant = "XY" -> Ok(noop)
      [] plane.variant = "YZ" -> from_rotation_between(BASE_NORMAL, X_NORMAL)
      [] plane.variant = "ZX" -> from_rotation_between(BASE_NORMAL, Y_NORMAL)
      [] plane.variant = "YX" -> from_rotation_between(BASE_NORMAL, VNeg(BASE_NORMAL))
      [] plane.variant = "ZY" -> from_rotation_between(BASE_NORMAL, VNeg(X_NORMAL))
      [] plane.variant = "XZ" -> from_rotation_between(BASE_NORMAL, VNeg(Y_NORMAL))
      [] OTHER -> Panic

(***************************************************************************)
(* Workplane (workplane.rs:123-256).                                       *)
(***************************************************************************)
Workplane(transform) == [transform |-> transform]

\* Self { transform: <plane>.transform() }: the panic of transform() is the
\* constructor's.
Workplane_of(plane) ==
    LET t == Plane_transform(plane)
    IN  IF t.ok THEN Ok(Workplane(t.val)) ELSE Panic

Workplane_new(x_dir, normal_dir) == Workplane_of(Custom(x_dir, normal_dir))

\* xy(), yz(), zx(), xz(), zy(), yx()
Workplane_named(variant) == Workplane_of(Named(variant))

origin(w) == w.transform.translation

normal(w) == Rotate(w.transform.rotation_quat, <<0, 0, 1>>)

x_dir(w) == Rotate(w.transform.rotation_quat, <<1, 0, 0>>)

y_dir(w) == Rotate(w.transform.rotation_quat, <<0, 1, 0>>)

set_rotation(w, rotation_quat) ==
    [w EXCEPT !.transform.rotation_quat = rotation_quat]

rotate_by(w, rotation_quat) ==
    [w EXCEPT !.transform.rotation_quat = QMul(rotation_quat, w.transform.rotation_quat)]

set_translation(w, pos) ==
    [w EXCEPT !.transform.translation = pos]

translate_by(w, offset) ==
    [w EXCEPT !.transform.translation = VAdd(w.transform.translation, offset)]

transformed(w, tandr) ==
    rotate_by([w EXCEPT !.transform.translation = VAdd(w.transform.translation, tandr.translation)],
              tandr.rotation_quat)

to_world_pos(w, pos) == transform_point(w.transform, pos)

to_local_pos(w, pos) == transform_point(inverse(w.transform), pos)

translated(w, offset) ==
    [w EXCEPT !.transform.translation = to_world_pos(w, offset)]

rotated(w, rotation_quat) == rotate_by(w, rotation_quat)

(***************************************************************************)
(* Edge: the kernel's edge handle, as far as the sketch uses it.           *)
(***************************************************************************)
Edge_segment(p1, p2) == [kind |-> "segment", start |-> p1, end |-> p2]

Edge_arc(p1, p2, p3) == [kind |-> "arc", start |-> p1, mid |-> p2, end |-> p3]

start_point(edge) == edge.start

end_point(edge) == edge.end

(***************************************************************************)
(* Sketch (workplane.rs:258-356).  A sketch value is the record of its     *)
(* four fields; each command takes the sketch and gives the sketch back.   *)
(***************************************************************************)
Sketch_new(c, w) == [first_point |-> None, cursor |-> c, workplane |-> w, edges |-> <<>>]

\* Workplane::sketch
sketch(w) == Sketch_new(to_world_pos(w, Zeros), w)

\* add_edge that records the start point of every edge, not of the first.
add_edge_relatch(s, edge) ==
    [s EXCEPT !.first_point = Some(start_point(edge)), !.edges = Append(@, edge)]

\* add_edge that puts the edge in front of the others.
add_edge_front(s, edge) ==
    [s EXCEPT
        !.first_point = IF s.first_point = None THEN Some(start_point(edge)) ELSE @,
        !.edges = <<edge>> \o @]

add_edge(s, edge) ==
    [s EXCEPT
        !.first_point = IF s.first_point = None THEN Some(start_point(edge)) ELSE @,
        !.edges = Append(@, edge)]

move_to(s, x, y) == [s EXCEPT !.cursor = to_world_pos(s.workplane, <<x, y, 0>>)]

\* line_to that leaves the cursor where it was.
line_to_stale(s, x, y) ==
    LET new_point == to_world_pos(s.workplane, <<x, y, 0>>)
        new_edge == Edge_segment(s.cursor, new_point)
    IN  add_edge(s, new_edge)

line_to(s, x, y) ==
    LET new_point == to_world_pos(s.workplane, <<x, y, 0>>)
        new_edge == Edge_segment(s.cursor, new_point)
    IN  add_edge([s EXCEPT !.cursor = new_point], new_edge)

\* line_dx that offsets the world cursor, not the local one.
line_dx_world(s, dx) ==
    LET c == s.cursor
        new_point == to_world_pos(s.workplane, <<c[1] + dx, c[2], 0>>)
        new_edge == Edge_segment(s.cursor, new_point)
    IN  add_edge([s EXCEPT !.cursor = new_point], new_edge)

line_dx(s, dx) ==
    LET c == to_local_pos(s.workplane, s.cursor)
        new_point == to_world_pos(s.workplane, <<c[1] + dx, c[2], 0>>)
        new_edge == Edge_segment(s.cursor, new_point)
    IN  add_edge([s EXCEPT !.cursor = new_point], new_edge)

line_dy(s, dy) ==
    LET c == to_local_pos(s.workplane, s.cursor)
        new_point == to_world_pos(s.workplane, <<c[1], c[2] + dy, 0>>)
        new_edge == Edge_segment(s.cursor, new_point)
    IN  add_edge([s EXCEPT !.cursor = new_point], new_edge)

line_dx_dy(s, dx, dy) ==
    LET c == to_local_pos(s.workplane, s.cursor)
        new_point == to_world_pos(s.workplane, <<c[1] + dx, c[2] + dy, 0>>)
        new_edge == Edge_segment(s.cursor, new_point)
    IN  add_edge([s EXCEPT !.cursor = new_point], new_edge)

arc(s, a1, a2, a3) ==
    LET p1 == to_world_pos(s.workplane, <<a1[1], a1[2], 0>>)
        p2 == to_world_pos(s.workplane, <<a2[1], a2[2], 0>>)
        p3 == to_world_pos(s.workplane, <<a3[1], a3[2], 0>>)
        new_arc == Edge_arc(p1, p2, p3)
    IN  add_edge([s EXCEPT !.cursor = p3], new_arc)

three_point_arc(s, a2, a3) ==
    LET c == to_local_pos(s.workplane, s.cursor)
    IN  arc(s, <<c[1], c[2]>>, a2, a3)

\* Sketch::close: first_point.unwrap() panics on None; otherwise the sketch
\* as it is when Wire::from_edges reads it.
close(s) ==
    IF s.first_point = None
    THEN Panic
    ELSE LET start == s.first_point.v
             new_edge == Edge_segment(s.cursor, start)
         IN  Ok(add_edge(s, new_edge))

(***************************************************************************)
(* Inputs the calls are given.                                             *)
(***************************************************************************)
Coords == 0..MaxCoord

\* Translations, offsets and points handed to a call.
Vecs == {<<x, y, z>> : x \in Coords, y \in Coords, z \in Coords}

\* The unit vectors handed to a call: the six axis directions.
Axes == {X_NORMAL, Y_NORMAL, Z_NORMAL, VNeg(X_NORMAL), VNeg(Y_NORMAL), VNeg(Z_NORMAL)}

\* The unit quaternions handed to a call: no turn, and the quarter turns
\* taking Z to X and X to Y, which together generate every rotation that
\* maps the axes to the axes.
QuatInputs == {QIdentity, INTER_QUAT, rotation_between(X_NORMAL, Y_NORMAL).v}

\* The transforms handed to transform_tandr as its argument: a translation
\* or none, a rotation of QuatInputs, either inversion flag.
Others ==
    {TandR(t, q, i) : t \in {Zeros, <<1, 0, 0>>}, q \in QuatInputs, i \in BOOLEAN}

(***************************************************************************)
(* The TandR specification: a caller holding one transform value `self`    *)
(* and calling the operations of TandR on it.                              *)
(***************************************************************************)
SketchIdle ==
    /\ phase = "start"
    /\ mutations = 0
    /\ workplane = [transform |-> noop]
    /\ first_point = None
    /\ cursor = Zeros
    /\ edges = <<>>

\* Every product of the quaternions of QuatInputs.
RECURSIVE Products(_)
Products(S) ==
    LET T == S \cup {QMul(p, q) : p \in S, q \in S}
    IN  IF T = S THEN S ELSE Products(T)

Rotations == Products(QuatInputs)

\* TandR::new(translation, rotation_quat) on any of the inputs.
InitTandR ==
    /\ self \in {TandR_new(t, q) : t \in Vecs, q \in Rotations}
    /\ out = [op |-> "new"]
    /\ SketchIdle

SketchUnchanged == UNCHANGED <<phase, mutations, workplane, first_point, cursor, edges>>

\* self = TandR::from_rotation_between(a, b), unless that panics.
FromRotationBetween ==
    \E a \in Axes, b \in Axes :
        LET r == from_rotation_between(a, b)
        IN  /\ out' = [op |-> "from_rotation_between", a |-> a, b |-> b, res |-> r]
            /\ self' = IF r.ok THEN r.val ELSE self
            /\ SketchUnchanged

\* self = self.inverse()
Inverse ==
    /\ self' = inverse(self)
    /\ out' = [op |-> "inverse"]
    /\ SketchUnchanged

\* self.transform_tandr(other)
TransformTandr ==
    \E other \in Others :
        /\ out' = [op |-> "transform_tandr", other |-> other,
                   res |-> transform_tandr(self, other)]
        /\ UNCHANGED self
        /\ SketchUnchanged

\* self.inverse().transform_point(self.transform_point(p))
RoundTrip ==
    \E p \in Vecs :
        LET image == transform_point(self, p)
        IN  /\ out' = [op |-> "round_trip", p |-> p, image |-> image,
                       back |-> transform_point(inverse(self), image)]
            /\ UNCHANGED self
            /\ SketchUnchanged

NextTandR ==
    \/ FromRotationBetween
    \/ Inverse
    \/ TransformTandr
    \/ RoundTrip

SpecTandR == InitTandR /\ [][NextTandR]_vars

\* Every rotation of a kept value by a kept quaternion is an exact quotient.
RotationsExact ==
    \A v \in Vecs \cup {self.translation} :
        \A k \in 2..4 : QSandwich(self.rotation_quat, v)[k] % QNorm2(self.rotation_quat) = 0

(***************************************************************************)
(* The sketch specification: a caller that builds a workplane, changes it  *)
(* at most MaxMutations times, opens a sketch on it, draws, and closes.    *)
(***************************************************************************)
\* Local (x, y) arguments of move_to, line_to, arc and three_point_arc.
LocalPts == Coords \X Coords

\* dx and dy of the relative line commands.
Deltas == {-1, 1}

\* The interior points given to arc and three_point_arc.
ArcMids == {<<0, 1>>}

\* The kernel builds an arc only through three points not on one line, and
\* a segment between two distinct points: the calls are given such points.
Turns(a1, a2, a3) ==
    (a2[1] - a1[1]) * (a3[2] - a1[2]) - (a2[2] - a1[2]) * (a3[1] - a1[1]) # 0

\* Offsets and rotations handed to the workplane's mutators.
Offsets == {<<1, 0, 1>>}
Turnings == {INTER_QUAT}

Init ==
    /\ self = TandR_default
    /\ out = [op |-> "start"]
    /\ SketchIdle

\* The sketch the caller holds, and the step that replaces it.
Held ==
    [first_point |-> first_point, cursor |-> cursor, workplane |-> workplane, edges |-> edges]

Becomes(s) ==
    /\ first_point' = s.first_point
    /\ cursor' = s.cursor
    /\ workplane' = s.workplane
    /\ edges' = s.edges

\* Workplane::xy(), yz(), zx(), xz(), zy(), yx()
ConstructNamed ==
    /\ phase = "start"
    /\ \E variant \in NamedPlanes :
        LET r == Workplane_named(variant)
        IN  /\ out' = [op |-> "plane", plane |-> Named(variant),
                       res |-> Plane_transform(Named(variant))]
            /\ phase' = IF r.ok THEN "workplane" ELSE "panic"
            /\ workplane' = IF r.ok THEN r.val ELSE workplane
    /\ UNCHANGED <<self, mutations, first_point, cursor, edges>>

\* Workplane::new(x_dir, normal_dir) on orthogonal unit vectors
ConstructCustom ==
    /\ phase = "start"
    /\ \E x \in Axes, n \in Axes :
        LET r == Workplane_new(x, n)
        IN  /\ Dot(x, n) = 0
            /\ out' = [op |-> "workplane_new", x_dir |-> x, normal_dir |-> n, res |-> r]
            /\ phase' = IF r.ok THEN "workplane" ELSE "panic"
            /\ workplane' = IF r.ok THEN r.val ELSE workplane
    /\ UNCHANGED <<self, mutations, first_point, cursor, edges>>

Mutated(w) ==
    /\ phase = "workplane"
    /\ mutations < MaxMutations
    /\ mutations' = mutations + 1
    /\ workplane' = w
    /\ out' = [op |-> "mutated"]
    /\ UNCHANGED <<self, phase, first_point, cursor, edges>>

SetRotation == \E q \in Turnings : Mutated(set_rotation(workplane, q))

RotateBy == \E q \in Turnings : Mutated(rotate_by(workplane, q))

SetTranslation == \E v \in Offsets : Mutated(set_translation(workplane, v))

TranslateBy == \E v \in Offsets : Mutated(translate_by(workplane, v))

Transformed ==
    \E v \in Offsets, q \in Turnings, i \in BOOLEAN :
        Mutated(transformed(workplane, TandR(v, q, i)))

Translated == \E v \in Offsets : Mutated(translated(workplane, v))

Rotated == \E q \in Turnings : Mutated(rotated(workplane, q))

\* Workplane::sketch
OpenSketch ==
    /\ phase = "workplane"
    /\ phase' = "sketch"
    /\ Becomes(sketch(workplane))
    /\ out' = [op |-> "sketch"]
    /\ UNCHANGED <<self, mutations>>

Command(s) ==
    /\ phase = "sketch"
    /\ Becomes(s)
    /\ UNCHANGED <<self, out, phase, mutations>>

Draws == Len(edges) < MaxEdges

MoveTo == \E a \in LocalPts : Command(move_to(Held, a[1], a[2]))

LineTo ==
    \E a \in LocalPts :
        /\ Draws
        /\ to_world_pos(workplane, <<a[1], a[2], 0>>) # cursor
        /\ Command(line_to(Held, a[1], a[2]))

LineDx ==
    \E dx \in Deltas :
        /\ Draws
        /\ to_local_pos(workplane, cursor)[1] + dx \in Coords
        /\ Command(line_dx(Held, dx))

LineDy ==
    \E dy \in Deltas :
        /\ Draws
        /\ to_local_pos(workplane, cursor)[2] + dy \in Coords
        /\ Command(line_dy(Held, dy))

LineDxDy ==
    \E dx \in Deltas, dy \in Deltas :
        /\ Draws
        /\ to_local_pos(workplane, cursor)[1] + dx \in Coords
        /\ to_local_pos(workplane, cursor)[2] + dy \in Coords
        /\ Command(line_dx_dy(Held, dx, dy))

Arc ==
    \E a1 \in LocalPts, a2 \in ArcMids, a3 \in LocalPts :
        /\ Draws
        /\ Turns(a1, a2, a3)
        /\ Command(arc(Held, a1, a2, a3))

ThreePointArc ==
    \E a2 \in ArcMids, a3 \in LocalPts :
        /\ Draws
        /\ LET c == to_local_pos(workplane, cursor)
           IN  Turns(<<c[1], c[2]>>, a2, a3)
        /\ Command(three_point_arc(Held, a2, a3))

\* Sketch::close, whose first_point.unwrap() may panic
Close ==
    /\ phase = "sketch"
    /\ first_point # Some(cursor)
    /\ LET r == close(Held)
       IN  /\ out' = [op |-> "close", res |-> IF r.ok THEN Ok("wire") ELSE r]
           /\ phase' = IF r.ok THEN "wire" ELSE "panic"
           /\ Becomes(IF r.ok THEN r.val ELSE Held)
    /\ UNCHANGED <<self, mutations>>

Next ==
    \/ ConstructNamed
    \/ ConstructCustom
    \/ SetRotation
    \/ RotateBy
    \/ SetTranslation
    \/ TranslateBy
    \/ Transformed
    \/ Translated
    \/ Rotated
    \/ OpenSketch
    \/ MoveTo
    \/ LineTo
    \/ LineDx
    \/ LineDy
    \/ LineDxDy
    \/ Arc
    \/ ThreePointArc
    \/ Close

Spec == Init /\ [][Next]_vars

\* The same caller, drawing only: no move_to, no close.
NextDraw ==
    \/ ConstructNamed
    \/ TranslateBy
    \/ RotateBy
    \/ OpenSketch
    \/ LineTo
    \/ LineDx
    \/ LineDy
    \/ LineDxDy
    \/ Arc
    \/ ThreePointArc

SpecDraw == Init /\ [][NextDraw]_vars

\* The workplane's rotations of the points it is given are exact quotients.
WorkplaneExact ==
    \A v \in Vecs \cup {cursor, workplane.transform.translation} :
        \A k \in 2..4 :
            QSandwich(workplane.transform.rotation_quat, v)[k]
                % QNorm2(workplane.transform.rotation_quat) = 0

(***************************************************************************)
(* Properties.                                                             *)
(***************************************************************************)
Last(seq) == seq[Len(seq)]

\* An error handed back to the caller, as opposed to a panic.
Reported == [ok |-> FALSE, panic |-> FALSE]

\* C1: for every rigid transform T (any translation, any rotation, either
\* inversion flag) and every point p, T.inverse().transform_point(
\* T.transform_point(p)) is p again.
C1_RoundTrip == out.op = "round_trip" => out.back = out.p

C1_Witness ==
    /\ out.op = "round_trip"
    /\ self.inverse
    /\ self.translation # Zeros
    /\ Rotate(self.rotation_quat, out.p) # out.p
    /\ out.image # out.p

\* C2: from_rotation_between(a, b) returns for every pair of unit vectors,
\* every exactly opposite pair included, and the rotation it returns takes a
\* onto b, with zero translation.
C2_Total ==
    out.op = "from_rotation_between" =>
        /\ out.res.ok
        /\ out.res.val.translation = Zeros
        /\ Rotate(out.res.val.rotation_quat, out.a) = out.b

\* C3 as claimed: after any sequence of line_to, line_dx, line_dy,
\* line_dx_dy and arc calls every edge starts where its predecessor ends.
C3_Contiguous ==
    \A k \in 1..(Len(edges) - 1) : end_point(edges[k]) = start_point(edges[k + 1])

\* C3 as amended: an edge appended by line_to, line_dx, line_dy, line_dx_dy
\* or three_point_arc starts where its predecessor ends; an edge appended by
\* arc(p1, p2, p3) starts at the world position of p1, wherever the previous
\* command left the cursor.
C3_Threaded ==
    /\ [][(edges # <<>> /\ (LineTo \/ LineDx \/ LineDy \/ LineDxDy \/ ThreePointArc))
            => start_point(Last(edges')) = end_point(Last(edges))]_vars
    /\ [][\A a1 \in LocalPts, a2 \in ArcMids, a3 \in LocalPts :
            (Draws /\ Command(arc(Held, a1, a2, a3)))
                => start_point(Last(edges')) = to_world_pos(workplane, <<a1[1], a1[2], 0>>)]_vars

C3_Witness ==
    /\ Len(edges) = 2
    /\ edges[1].kind = "segment"
    /\ edges[2].kind = "arc"
    /\ end_point(edges[1]) = start_point(edges[2])
    /\ workplane.transform.rotation_quat # QIdentity
    /\ workplane.transform.translation # Zeros

\* C4: close() on a sketch to which no edge was ever added gives the caller
\* a reported error, never a panic.
C4_CloseReports ==
    (out.op = "close" /\ first_point = None) => out.res = Reported

\* C5: first_point is absent while the edge list is empty, is the start
\* point of the first edge from then on, is never changed once set, and
\* close() on a sketch with n >= 1 edges appends exactly the segment from the
\* cursor to first_point, giving n + 1 edges.
C5_Latch ==
    /\ [](first_point = None <=> edges = <<>>)
    /\ [](edges # <<>> => first_point = Some(start_point(edges[1])))
    /\ [][first_point # None => first_point' = first_point]_vars
    /\ [][(Close /\ edges # <<>>)
            => edges' = Append(edges, Edge_segment(cursor, first_point.v))]_vars

C5_Witness ==
    /\ phase = "wire"
    /\ Len(edges) >= 3
    /\ end_point(edges[1]) # start_point(edges[2])
    /\ Last(edges) = Edge_segment(cursor, first_point.v)
    /\ cursor # first_point.v

\* C6: Workplane::new(x_dir, normal_dir) on orthogonal unit vectors gives a
\* workplane with zero origin whose x_dir() is x_dir, whose normal() is
\* normal_dir and whose y_dir() is normal x x.
C6_CustomBuilds ==
    out.op = "workplane_new" =>
        /\ out.res.ok
        /\ origin(out.res.val) = Zeros
        /\ x_dir(out.res.val) = out.x_dir
        /\ normal(out.res.val) = out.normal_dir
        /\ y_dir(out.res.val) = Cross(out.normal_dir, out.x_dir)

\* C7: Plane::transform() on a named variant has zero translation and the
\* inversion flag false; its rotation is the identity for XY and takes the
\* base normal Z onto X for YZ, Y for ZX, -Z for YX, -X for ZY, -Y for XZ.
NormalOf(variant) ==
    CASE variant = "XY" -> Z_NORMAL
      [] variant = "YZ" -> X_NORMAL
      [] variant = "ZX" -> Y_NORMAL
      [] variant = "YX" -> VNeg(Z_NORMAL)
      [] variant = "ZY" -> VNeg(X_NORMAL)
      [] variant = "XZ" -> VNeg(Y_NORMAL)

C7_NamedPlanes ==
    out.op = "plane" =>
        /\ out.res.ok
        /\ out.res.val.translation = Zeros
        /\ out.res.val.inverse = FALSE
        /\ out.plane.variant = "XY" => out.res.val.rotation_quat = QIdentity
        /\ Rotate(out.res.val.rotation_quat, Z_NORMAL) = NormalOf(out.plane.variant)

C7_Witness ==
    /\ out.op = "plane"
    /\ out.plane.variant = "YX"
    /\ out.res.ok
    /\ workplane.transform = out.res.val

\* C8: on a workplane of any orientation and origin, line_dx(dx), line_dy(dy)
\* and line_dx_dy(dx, dy) leave the cursor where its local coordinates are
\* the previous ones plus (dx, 0, 0), (0, dy, 0), (dx, dy, 0), and append the
\* segment from the previous cursor to the new one.
MovedBy(d) ==
    /\ to_local_pos(workplane, cursor') = VAdd(to_local_pos(workplane, cursor), d)
    /\ edges' = Append(edges, Edge_segment(cursor, cursor'))

C8_RelativeMoves ==
    /\ [][\A dx \in Deltas :
            (Draws /\ Command(line_dx(Held, dx))) => MovedBy(<<dx, 0, 0>>)]_vars
    /\ [][\A dy \in Deltas :
            (Draws /\ Command(line_dy(Held, dy))) => MovedBy(<<0, dy, 0>>)]_vars
    /\ [][\A dx \in Deltas, dy \in Deltas :
            (Draws /\ Command(line_dx_dy(Held, dx, dy))) => MovedBy(<<dx, dy, 0>>)]_vars

C8_Witness ==
    /\ phase = "sketch"
    /\ workplane.transform.rotation_quat # QIdentity
    /\ workplane.transform.translation # Zeros
    /\ Len(edges) = 2
    /\ Last(edges).kind = "segment"
    /\ to_local_pos(workplane, end_point(Last(edges)))
         = VAdd(to_local_pos(workplane, start_point(Last(edges))), <<-1, 1, 0>>)
    /\ start_point(Last(edges)) = end_point(edges[1])

\* C9: self.transform_tandr(other) acts on every point as other followed by
\* self, its rotation being self.rotation o other.rotation and its
\* translation self.translation + self.rotation(other.translation).
C9_Composes ==
    out.op = "transform_tandr" =>
        /\ out.res.rotation_quat = QMul(self.rotation_quat, out.other.rotation_quat)
        /\ out.res.translation
             = VAdd(self.translation, Rotate(self.rotation_quat, out.other.translation))
        /\ \A p \in Vecs :
             transform_point(out.res, p) = transform_point(self, transform_point(out.other, p))

\* C10: a sketch opens with the cursor at the workplane's world origin and
\* no edge; each line_to, line_dx, line_dy, line_dx_dy, arc and
\* three_point_arc call appends exactly one edge behind the ones already
\* there; move_to changes the cursor only.
C10_OneEdgePerCall ==
    /\ [][OpenSketch
            => (cursor' = origin(workplane) /\ edges' = <<>> /\ first_point' = None)]_vars
    /\ [][(LineTo \/ LineDx \/ LineDy \/ LineDxDy \/ Arc \/ ThreePointArc)
            => (Len(edges') = Len(edges) + 1 /\ SubSeq(edges', 1, Len(edges)) = edges)]_vars
    /\ [][MoveTo
            => (edges' = edges /\ first_point' = first_point /\ workplane' = workplane)]_vars

C10_Witness ==
    /\ phase = "sketch"
    /\ Len(edges) = 2
    /\ edges[1].kind = "arc"
    /\ edges[2].kind = "segment"
    /\ cursor # end_point(edges[2])
    /\ first_point = Some(start_point(edges[1]))

====
